---- MODULE Spec2Model ----
(***************************************************************************)
(* EmbeddedChat theming and component overrides.                           *)
(*                                                                         *)
(* Two state machines over one set of variables:                           *)
(*   ThemeSpec - the Theme Accessor (useTheme, invertMode) on top of the   *)
(*               Theme Provider store;                                     *)
(*   Spec      - the Override Registry, the Override Resolver and the      *)
(*               presentational components Message, MessageHeader and      *)
(*               MessageToolbox that consume it.                           *)
(*                                                                         *)
(* JavaScript values: an optional structured value is a sequence of length *)
(* at most one (None = undefined, Some(x) = x); an optional string is the  *)
(* string itself or the tag Undefined.                                     *)
(***************************************************************************)
EXTENDS Naturals, Sequences, FiniteSets, TLC

VARIABLES provider, themeCall, setterCalled, modeCall, registry, rendered

vars == <<provider, themeCall, setterCalled, modeCall, registry, rendered>>

themeVars == <<provider, themeCall, setterCalled, modeCall>>

overrideVars == <<registry, rendered>>

----------------------------------------------------------------------------
(* JavaScript value conventions                                            *)

None == <<>>

Some(x) == <<x>>

Undefined == "<undefined>"

\* o[k] on an object whose own keys are DOMAIN o: a missing key reads undefined
Lookup(o, k) == IF k \in DOMAIN o THEN o[k] ELSE Undefined

----------------------------------------------------------------------------
(* Theme Accessor                                                          *)

\* mode values a caller can hand to invertMode or to a setter
ModeValues == {"light", "dark", "system", ""}

invertMode_Identity(mode) ==
    IF mode = "light" THEN "dark" ELSE IF mode = "dark" THEN "light" ELSE mode

invertMode(mode) == IF mode = "light" THEN "dark" ELSE "light"

\* the built-in default theme: a light and a dark scheme
DefaultTheme ==
    [name |-> "default",
     schemes |-> [light |-> "default.light", dark |-> "default.dark"]]

\* a host theme that defines no dark scheme
LightOnlyTheme ==
    [name |-> "lightOnly", schemes |-> [light |-> "lightOnly.light"]]

Themes == {DefaultTheme, LightOnlyTheme}

\* the value the Theme Provider publishes for its state (theme, mode)
ThemeContextValue(theme, mode) ==
    [theme |-> theme,
     mode |-> mode,
     colors |-> Lookup(theme.schemes, mode),
     invertedColors |-> Lookup(theme.schemes, invertMode(mode)),
     setMode |-> "provider.setMode",
     setTheme |-> "provider.setTheme"]

\* useContext(ThemeContext): None without a provider ancestor
useContext ==
    IF provider = None
    THEN None
    ELSE Some(ThemeContextValue(provider[1].theme, provider[1].mode))

useTheme_SwappedColors(context) ==
    IF context = None
    THEN [theme |-> DefaultTheme,
          mode |-> "light",
          colors |-> Lookup(DefaultTheme.schemes, invertMode("light")),
          invertedColors |-> Lookup(DefaultTheme.schemes, "light"),
          setMode |-> "noop",
          setTheme |-> "noop"]
    ELSE context[1]

useTheme_FillInverted(context) ==
    IF context = None
    THEN [theme |-> DefaultTheme,
          mode |-> "light",
          colors |-> Lookup(DefaultTheme.schemes, "light"),
          invertedColors |-> Lookup(DefaultTheme.schemes, invertMode("light")),
          setMode |-> "noop",
          setTheme |-> "noop"]
    ELSE IF context[1].invertedColors = Undefined
         THEN [context[1] EXCEPT
                 !.invertedColors = Lookup(DefaultTheme.schemes, "dark")]
         ELSE context[1]

useTheme(context) ==
    IF context = None
    THEN [theme |-> DefaultTheme,
          mode |-> "light",
          colors |-> Lookup(DefaultTheme.schemes, "light"),
          invertedColors |-> Lookup(DefaultTheme.schemes, invertMode("light")),
          setMode |-> "noop",
          setTheme |-> "noop"]
    ELSE context[1]

\* a component calls useTheme(); the call is logged with the context it saw
UseTheme ==
    /\ themeCall' = Some([context |-> useContext,
                          value |-> useTheme(useContext),
                          afterSetter |-> setterCalled])
    /\ UNCHANGED <<provider, setterCalled, modeCall>>

\* the store after calling the setMode a component holds from useTheme()
SetModeEffect(setter, m) ==
    IF setter = "provider.setMode"
    THEN Some([provider[1] EXCEPT !.mode = m])
    ELSE provider

\* the store after calling the setTheme a component holds from useTheme()
SetThemeEffect(setter, t) ==
    IF setter = "provider.setTheme"
    THEN Some([provider[1] EXCEPT !.theme = t])
    ELSE provider

CallSetMode ==
    /\ themeCall # None
    /\ \E m \in {"light", "dark"} :
         provider' = SetModeEffect(themeCall[1].value.setMode, m)
    /\ setterCalled' = TRUE
    /\ UNCHANGED <<themeCall, modeCall>>

CallSetTheme ==
    /\ themeCall # None
    /\ \E t \in Themes :
         provider' = SetThemeEffect(themeCall[1].value.setTheme, t)
    /\ setterCalled' = TRUE
    /\ UNCHANGED <<themeCall, modeCall>>

\* invertMode applied once and twice to a caller's mode value
InvertMode ==
    /\ \E m \in ModeValues :
         modeCall' = Some([arg |-> m,
                           once |-> invertMode(m),
                           twice |-> invertMode(invertMode(m))])
    /\ UNCHANGED <<provider, themeCall, setterCalled>>

ProviderStates ==
    {None} \cup {Some([theme |-> t, mode |-> m]) : t \in Themes, m \in {"light", "dark"}}

ThemeInit ==
    /\ provider \in ProviderStates
    /\ themeCall = None
    /\ setterCalled = FALSE
    /\ modeCall = None
    /\ registry = [c \in {} |-> None]
    /\ rendered = None

ThemeNext ==
    \/ (UseTheme /\ UNCHANGED overrideVars)
    \/ (CallSetMode /\ UNCHANGED overrideVars)
    \/ (CallSetTheme /\ UNCHANGED overrideVars)
    \/ (InvertMode /\ UNCHANGED overrideVars)

ThemeSpec == ThemeInit /\ [][ThemeNext]_vars

----------------------------------------------------------------------------
(* Override Registry and Override Resolver                                 *)

\* longest item list a host configures in optionConfig
MaxItems == 1

ComponentNames == {"Message", "MessageHeader", "MessageToolbox"}

\* keys of the toolbox's options table
OptionNames == {"reply", "star"}

ItemLists == UNION {[1..n -> OptionNames] : n \in 0..MaxItems}

OptionalItemLists == {None} \cup {Some(l) : l \in ItemLists}

\* { styleOverrides?, classNames?, variantOverrides?, configOverrides? }
Entry(variant, config) ==
    [styleOverrides |-> "host.style",
     classNames |-> "host-class",
     variantOverrides |-> variant,
     configOverrides |-> config]

OptionConfigs ==
    {None} \cup
    {Some([surfaceItems |-> s, menuItems |-> m]) :
        s \in OptionalItemLists, m \in OptionalItemLists}

MessageEntries == {None, Some(Entry("bubble", None))}

MessageHeaderEntries ==
    {None} \cup
    {Some(Entry(v, None)) : v \in {Undefined, "colorize", "Normal", ""}}

MessageToolboxEntries ==
    {None, Some(Entry(Undefined, None))} \cup
    {Some(Entry(Undefined, Some([optionConfig |-> oc]))) : oc \in OptionConfigs}

Registries ==
    {[c \in ComponentNames |->
        CASE c = "Message" -> m
          [] c = "MessageHeader" -> h
          [] c = "MessageToolbox" -> t] :
        m \in MessageEntries, h \in MessageHeaderEntries, t \in MessageToolboxEntries}

\* the resolver returns the registry entry's raw fields; an absent entry reads
\* as every field undefined, and the call-site className and style are not merged
useComponentOverrides(component, className, style) ==
    IF component \notin DOMAIN registry \/ registry[component] = None
    THEN [styleOverrides |-> Undefined,
          classNames |-> Undefined,
          variantOverrides |-> Undefined,
          configOverrides |-> None]
    ELSE [styleOverrides |-> registry[component][1].styleOverrides,
          classNames |-> registry[component][1].classNames,
          variantOverrides |-> registry[component][1].variantOverrides,
          configOverrides |-> registry[component][1].configOverrides]

----------------------------------------------------------------------------
(* JavaScript operators used by the components                             *)

\* truthiness of a string-or-undefined value
Truthy(v) == v # Undefined /\ v # ""

\* a || b on an optional array: every array, the empty one included, is truthy
OrArray(a, b) == IF a # None THEN a ELSE b

\* o?.field on an optional object
OptionalChain(o, field) == IF o = None THEN None ELSE o[1][field]

----------------------------------------------------------------------------
(* MessageToolbox                                                          *)

\* the component's built-in optionConfig
optionConfig ==
    [surfaceItems |-> Some(<<"reply">>), menuItems |-> Some(<<"star">>)]

\* an options table: an option may be missing, and carries a visible flag
OptionStates == {"missing", "hidden", "visible"}

OptionTables ==
    {[n \in OptionNames |->
        IF f[n] = "missing"
        THEN None
        ELSE Some([id |-> n, visible |-> f[n] = "visible"])] :
        f \in [OptionNames -> OptionStates]}

surfaceItems(configOverrides) ==
    OrArray(OptionalChain(configOverrides[1].optionConfig, "surfaceItems"),
            optionConfig.surfaceItems)

menuItems_SurfaceDefault(configOverrides) ==
    OrArray(OptionalChain(configOverrides[1].optionConfig, "menuItems"),
            optionConfig.surfaceItems)

menuItems(configOverrides) ==
    OrArray(OptionalChain(configOverrides[1].optionConfig, "menuItems"),
            optionConfig.menuItems)

\* items.map(item => options[item]?.visible ? {id: options[item].id, ...} : null)
\*      .filter(option => option !== null), kept as the sequence of option ids
RECURSIVE visibleOptions(_, _)
visibleOptions(items, options) ==
    IF items = <<>>
    THEN <<>>
    ELSE LET item == Head(items)
             rest == visibleOptions(Tail(items), options)
         IN IF options[item] # None /\ options[item][1].visible
            THEN <<options[item][1].id>> \o rest
            ELSE rest

menuOptions_NoFilter(items, options) == items[1]

menuOptions(items, options) == visibleOptions(items[1], options)

surfaceOptions(items, options) == visibleOptions(items[1], options)

\* reading configOverrides.optionConfig throws when configOverrides is undefined
MessageToolbox(overrides, options) ==
    IF overrides.configOverrides = None
    THEN [component |-> "MessageToolbox",
          options |-> options,
          thrown |-> "TypeError"]
    ELSE LET si == surfaceItems(overrides.configOverrides)
             mi == menuItems(overrides.configOverrides)
             so == surfaceOptions(si, options)
             mo == menuOptions(mi, options)
         IN [component |-> "MessageToolbox",
             options |-> options,
             thrown |-> "none",
             surfaceItems |-> si,
             menuItems |-> mi,
             surfaceOptions |-> so,
             menuOptions |-> mo,
             showsSurfaceMenu |-> Len(so) > 0,
             showsMenu |-> Len(mo) > 0]

RenderMessageToolbox ==
    /\ \E options \in OptionTables :
         rendered' =
           Some(MessageToolbox(useComponentOverrides("MessageToolbox", "", None),
                               options))
    /\ UNCHANGED registry

----------------------------------------------------------------------------
(* MessageHeader                                                           *)

Usernames == {"spiral_memory", "alice"}

\* the per-user colour of a display name
getDisplayNameColor(username) == <<"color", username>>

displayNameVariant_NoDefault(variantOverrides) == variantOverrides

displayNameVariant(variantOverrides) ==
    IF Truthy(variantOverrides) THEN variantOverrides ELSE "Normal"

\* the inline style of the username span: null unless the variant is colorize
userNameStyle(variant, username) ==
    IF variant = "colorize"
    THEN Some([color |-> getDisplayNameColor(username)])
    ELSE None

MessageHeader(overrides, message) ==
    LET variant == displayNameVariant(overrides.variantOverrides)
    IN [component |-> "MessageHeader",
        message |-> message,
        displayNameVariant |-> variant,
        classNames |-> overrides.classNames,
        style |-> userNameStyle(variant, message.username)]

\* message.t: undefined or empty for a user message, a tag for a system message
MessageTypes == {Undefined, "", "uj"}

Messages == [t : MessageTypes, username : Usernames]

RenderMessageHeader ==
    /\ \E message \in Messages :
         rendered' =
           Some(MessageHeader(useComponentOverrides("MessageHeader", "", None),
                              message))
    /\ UNCHANGED registry

----------------------------------------------------------------------------
(* Message                                                                 *)

\* the styles object of the bubble layout for the sender's side
useBubbleStyles(isMe) ==
    [name |-> "bubble",
     messageParent |-> <<"bubble.messageParent", isMe>>]

\* variantOverrides as the caller passes it: Undefined when the prop is unset
VariantProps == {Undefined, "default", "bubble", "compact"}

MessageProps ==
    [message : Messages,
     sequential : BOOLEAN,
     newDay : BOOLEAN,
     variantOverrides : VariantProps]

\* a destructured prop with a default value: the default applies to undefined
DefaultProp(value, default) == IF value = Undefined THEN default ELSE value

shouldShowHeader_Always(sequential) == TRUE

shouldShowHeader(sequential) == ~sequential

variantStyles_NotDefault(variantOverrides, bubbleStyles) ==
    IF variantOverrides # "default" THEN Some(bubbleStyles) ELSE None

\* variantOverrides === "bubble" ? bubbleStyles : {}  (None is the empty object)
variantStyles(variantOverrides, bubbleStyles) ==
    IF variantOverrides = "bubble" THEN Some(bubbleStyles) ELSE None

\* !message.t
showsBody(message) == ~Truthy(message.t)

\* variantStyles.messageParent || styles.main
containerCss(styles) ==
    IF styles # None THEN styles[1].messageParent ELSE <<"styles.main">>

\* the props spread onto MessageHeader: showDisplayName only in the bubble layout
headerProps(styles, isMe) ==
    IF styles # None /\ styles[1].name = "bubble"
    THEN [showDisplayName |-> IF isMe THEN "false" ELSE "true"]
    ELSE [showDisplayName |-> Undefined]

Message(props) ==
    LET variantOverrides == DefaultProp(props.variantOverrides, "default")
        isMe == props.message.username = "spiral_memory"
        bubbleStyles == useBubbleStyles(isMe)
        styles == variantStyles(variantOverrides, bubbleStyles)
        body == showsBody(props.message)
    IN [component |-> "Message",
        props |-> props,
        variantOverrides |-> variantOverrides,
        variantStyles |-> styles,
        containerCss |-> containerCss(styles),
        header |-> IF shouldShowHeader(props.sequential)
                   THEN Some(headerProps(styles, isMe))
                   ELSE None,
        body |-> body,
        toolbox |-> body /\ showsBody(props.message),
        divider |-> props.newDay]

RenderMessage ==
    /\ \E props \in MessageProps : rendered' = Some(Message(props))
    /\ UNCHANGED registry

----------------------------------------------------------------------------
(* The override state machine                                              *)

Init ==
    /\ registry \in Registries
    /\ rendered = None
    /\ provider = None
    /\ themeCall = None
    /\ setterCalled = FALSE
    /\ modeCall = None

Next ==
    \/ (RenderMessage /\ UNCHANGED themeVars)
    \/ (RenderMessageHeader /\ UNCHANGED themeVars)
    \/ (RenderMessageToolbox /\ UNCHANGED themeVars)

Spec == Init /\ [][Next]_vars

----------------------------------------------------------------------------
(* Properties of the Theme Accessor (checked under ThemeSpec)              *)

\* C1: without a Theme Provider every useTheme() call, whatever setMode and
\* setTheme calls came before it, returns mode "light", the default theme, the
\* default theme's light scheme as colors and its dark scheme as
\* invertedColors; the setters it returns are no-ops, so the store stays
\* without a provider.
C1_NoProviderDefaults ==
    (themeCall # None /\ themeCall[1].context = None) =>
        /\ provider = None
        /\ themeCall[1].value.mode = "light"
        /\ themeCall[1].value.theme = DefaultTheme
        /\ themeCall[1].value.colors = DefaultTheme.schemes.light
        /\ themeCall[1].value.invertedColors = DefaultTheme.schemes.dark
        /\ themeCall[1].value.setMode = "noop"
        /\ themeCall[1].value.setTheme = "noop"

C1_Witness ==
    /\ provider = None
    /\ themeCall # None
    /\ themeCall[1].afterSetter
    /\ themeCall[1].value.colors = "default.light"

\* C6: with a theme context present useTheme() returns that context unchanged;
\* a context in mode "light" whose theme has no dark scheme gives
\* invertedColors undefined, and the default theme's dark scheme is returned
\* only for the default theme itself.
C6_ContextVerbatim ==
    (themeCall # None /\ themeCall[1].context # None) =>
        /\ themeCall[1].value = themeCall[1].context[1]
        /\ ("dark" \notin DOMAIN themeCall[1].value.theme.schemes
              /\ themeCall[1].value.mode = "light")
             => themeCall[1].value.invertedColors = Undefined
        /\ themeCall[1].value.invertedColors = DefaultTheme.schemes.dark
             => themeCall[1].value.theme = DefaultTheme

C6_Witness ==
    /\ themeCall # None
    /\ themeCall[1].context # None
    /\ themeCall[1].value.theme = LightOnlyTheme
    /\ themeCall[1].value.mode = "light"
    /\ themeCall[1].value.colors = "lightOnly.light"
    /\ themeCall[1].value.invertedColors = Undefined

\* C8: invertMode maps "light" to "dark" and "dark" to "light", so applying it
\* twice gives back either of the two modes; every other mode value maps to
\* "light", and applying it twice does not give that value back.
C8_InvertModeInvolution ==
    modeCall # None =>
        /\ modeCall[1].arg = "light" => modeCall[1].once = "dark"
        /\ modeCall[1].arg = "dark" => modeCall[1].once = "light"
        /\ modeCall[1].arg \in {"light", "dark"} =>
             modeCall[1].twice = modeCall[1].arg
        /\ modeCall[1].arg \notin {"light", "dark"} =>
             /\ modeCall[1].once = "light"
             /\ modeCall[1].twice # modeCall[1].arg

C8_Witness ==
    /\ modeCall # None
    /\ modeCall[1].arg = "system"
    /\ modeCall[1].once = "light"
    /\ modeCall[1].twice = "dark"

----------------------------------------------------------------------------
(* Properties of the overrides and the components (checked under Spec)     *)

IsRendered(component) ==
    rendered # None /\ rendered[1].component = component

\* the optionConfig field the host's registry gives for MessageToolbox
GivenItems(field) ==
    IF registry["MessageToolbox"] = None
    THEN None
    ELSE IF registry["MessageToolbox"][1].configOverrides = None
    THEN None
    ELSE OptionalChain(
           registry["MessageToolbox"][1].configOverrides[1].optionConfig, field)

HasConfigOverrides ==
    /\ registry["MessageToolbox"] # None
    /\ registry["MessageToolbox"][1].configOverrides # None

OptionVisible(options, name) ==
    options[name] # None /\ options[name][1].visible

\* C2: with the registry entry {Message: {variantOverrides: "bubble"}} a
\* Message rendered without a variantOverrides prop uses the bubble styles.
C2_RegistryBubbleApplied ==
    (/\ IsRendered("Message")
     /\ registry["Message"] # None
     /\ registry["Message"][1].variantOverrides = "bubble"
     /\ rendered[1].props.variantOverrides = Undefined) =>
        /\ rendered[1].variantStyles # None
        /\ rendered[1].variantStyles[1].name = "bubble"

\* C3: a MessageToolbox rendered with no registry entry does not throw and ends
\* up with the built-in optionConfig.surfaceItems and optionConfig.menuItems.
C3_AbsentEntryFallsBack ==
    (IsRendered("MessageToolbox") /\ registry["MessageToolbox"] = None) =>
        /\ rendered[1].thrown = "none"
        /\ rendered[1].surfaceItems = optionConfig.surfaceItems
        /\ rendered[1].menuItems = optionConfig.menuItems

\* C4 as stated: with menuItems ["reply"] configured, the toolbox shows exactly
\* the one menu option "reply" whatever the options table holds.
C4_AlwaysExactlyReply ==
    (IsRendered("MessageToolbox") /\ GivenItems("menuItems") = Some(<<"reply">>)) =>
        /\ rendered[1].thrown = "none"
        /\ rendered[1].showsMenu
        /\ rendered[1].menuOptions = <<"reply">>

\* C4 amended: with menuItems ["reply"] configured, the toolbox shows the one
\* menu option "reply" and no other when options.reply exists and is visible,
\* and renders no menu at all otherwise.
C4_ReplyWhenVisible ==
    (IsRendered("MessageToolbox") /\ GivenItems("menuItems") = Some(<<"reply">>)) =>
        /\ rendered[1].thrown = "none"
        /\ rendered[1].showsMenu = OptionVisible(rendered[1].options, "reply")
        /\ rendered[1].menuOptions =
             IF OptionVisible(rendered[1].options, "reply")
             THEN <<"reply">>
             ELSE <<>>

C4_Witness ==
    /\ IsRendered("MessageToolbox")
    /\ GivenItems("menuItems") = Some(<<"reply">>)
    /\ GivenItems("surfaceItems") = None
    /\ OptionVisible(rendered[1].options, "reply")
    /\ OptionVisible(rendered[1].options, "star")
    /\ rendered[1].menuOptions = <<"reply">>

C7_HeaderVariant ==
    IsRendered("MessageHeader") =>
        LET given == IF registry["MessageHeader"] = None
                     THEN Undefined
                     ELSE registry["MessageHeader"][1].variantOverrides
        IN /\ given = Undefined => rendered[1].displayNameVariant = "Normal"
           /\ given \notin {Undefined, ""} => rendered[1].displayNameVariant = given
           /\ (rendered[1].style # None) <=> (rendered[1].displayNameVariant = "colorize")
           /\ rendered[1].style # None =>
                rendered[1].style[1].color =
                  getDisplayNameColor(rendered[1].message.username)

C7_Witness ==
    /\ IsRendered("MessageHeader")
    /\ registry["MessageHeader"] # None
    /\ registry["MessageHeader"][1].variantOverrides = "colorize"
    /\ rendered[1].displayNameVariant = "colorize"
    /\ rendered[1].style # None

\* C9: Message uses the bubble styles exactly when its variantOverrides is
\* "bubble"; for every other value, the default and unknown tags included,
\* variantStyles is empty and the container uses styles.main.
C9_BubbleIffExact ==
    IsRendered("Message") =>
        /\ (rendered[1].variantStyles # None) <=>
             (rendered[1].props.variantOverrides = "bubble")
        /\ rendered[1].variantStyles # None =>
             /\ rendered[1].variantStyles[1].name = "bubble"
             /\ rendered[1].containerCss = rendered[1].variantStyles[1].messageParent
        /\ rendered[1].props.variantOverrides # "bubble" =>
             /\ rendered[1].variantStyles = None
             /\ rendered[1].containerCss = <<"styles.main">>

C9_Witness ==
    /\ IsRendered("Message")
    /\ rendered[1].props.variantOverrides = "compact"
    /\ rendered[1].variantStyles = None
    /\ rendered[1].containerCss = <<"styles.main">>

\* C10: Message renders the header exactly when sequential is false, the body
\* exactly when message.t is falsy, the toolbox exactly when it renders the
\* body, and the date divider exactly when newDay is true.
C10_RenderConditions ==
    IsRendered("Message") =>
        /\ (rendered[1].header # None) <=> ~rendered[1].props.sequential
        /\ rendered[1].body <=> rendered[1].props.message.t \in {Undefined, ""}
        /\ rendered[1].toolbox <=> rendered[1].body
        /\ rendered[1].divider <=> rendered[1].props.newDay

C10_Witness ==
    /\ IsRendered("Message")
    /\ rendered[1].props.sequential
    /\ rendered[1].props.message.t = "uj"
    /\ rendered[1].props.newDay
    /\ rendered[1].header = None
    /\ ~rendered[1].body
    /\ ~rendered[1].toolbox
    /\ rendered[1].divider

====
